---- MODULE Spec2Model ----
(***************************************************************************)
(* Verification model of the ZTP network configuration module              *)
(* (src/ztp_implementation_2_10_2025.py): the MAC / DHCP / VLAN / network  *)
(* validators, NetworkConfig.from_json and deploy_configuration.           *)
(*                                                                         *)
(* Representation of strings.                                              *)
(*  - A MAC string is a sequence of one-character strings, so that         *)
(*    str.split(':'), str.replace(':', '') and int(..., 16) are computed   *)
(*    character by character.                                              *)
(*  - An IP address string is the sequence of its dot-separated decimal    *)
(*    fields (<<8,8,8,8>> is "8.8.8.8", <<999,999,999,999>> is             *)
(*    "999.999.999.999", <<1,2,3>> is "1.2.3").                            *)
(*  - A CIDR string is [addr |-> fields, prefix |-> n], with               *)
(*    prefix = NoPrefix when the string has no "/".                        *)
(* Field values are well typed (strings where the dataclasses declare str, *)
(* integers where they declare int).                                       *)
(***************************************************************************)
EXTENDS Integers, Sequences, FiniteSets, TLC

VARIABLES
    mac, macResult,          \* argument / result of DHCPConfig._is_valid_mac
    dhcp, dhcpResult,        \* a DHCPConfig / outcome of its validate()
    vlan, vlanResult,        \* a VLANConfig / outcome of its validate()
    config_data,             \* the dict handed to NetworkConfig.from_json
    config,                  \* <<>> or <<the NetworkConfig object held by the caller>>
    error,                   \* the exception from_json raised to the caller, or None
    valid,                   \* <<>> or <<outcome of the last NetworkConfig.validate()>>
    calls,                   \* number of validate() calls made by the caller
    pc,                      \* position of the caller / of deploy_configuration
    devices,                 \* the list handed to deploy_configuration
    i,                       \* index of the next device of the for loop
    success,                 \* deploy_configuration's local
    applied,                 \* indices of the devices whose deploy_config was invoked
    log,                     \* records emitted through logger during the deployment
    returned                 \* <<>> or <<value deploy_configuration returned>>

pureVars == <<mac, macResult, dhcp, dhcpResult, vlan, vlanResult>>
netVars == <<config_data, config, error, valid, calls>>
deployVars == <<devices, i, success, applied, log, returned>>
vars == <<pureVars, netVars, deployVars, pc>>

None == "None"

(***************************************************************************)
(* Bounds of the explored inputs.                                          *)
(***************************************************************************)
MaxMacGroups == 7        \* a MAC input has 1..MaxMacGroups colon-separated groups
MaxMacOdd == 2           \* at most this many groups differ from "aa"
MaxReservations == 2     \* entries of DHCPConfig.reservations
VlanIdMargin == 2        \* VLAN ids explored: (1 - margin)..(4094 + margin)
MaxVlans == 2            \* entries of NetworkConfig.vlans
MaxDns == 2              \* entries of NetworkConfig.dns_servers
MaxValidateCalls == 2    \* validate() calls on one object
MaxDevices == 3          \* devices of one deployment

(***************************************************************************)
(* Sequence helpers.                                                       *)
(***************************************************************************)
RECURSIVE Join(_)
Join(gs) ==
    IF Len(gs) = 0 THEN <<>>
    ELSE IF Len(gs) = 1 THEN gs[1]
    ELSE gs[1] \o <<":">> \o Join(Tail(gs))

Min(a, b) == IF a < b THEN a ELSE b
Max(a, b) == IF a > b THEN a ELSE b

(***************************************************************************)
(* Python built-ins used by _is_valid_mac.                                 *)
(***************************************************************************)
\* str.split(':'): the list of the groups between the colons
RECURSIVE SplitFrom(_, _)
SplitFrom(s, cur) ==
    IF s = <<>> THEN <<cur>>
    ELSE IF Head(s) = ":" THEN <<cur>> \o SplitFrom(Tail(s), <<>>)
    ELSE SplitFrom(Tail(s), Append(cur, Head(s)))

Split(s) == SplitFrom(s, <<>>)

\* str.replace(':', '')
Replace(s) == SelectSeq(s, LAMBDA c : c # ":")

HexDigits == {"0", "1", "9", "a", "b", "f", "A", "F"}

\* the digit part of an integer literal: digits with single underscores between
DigitsOk(s) ==
    /\ Len(s) > 0
    /\ \A k \in 1..Len(s) : s[k] \in HexDigits \cup {"_"}
    /\ s[1] # "_" /\ s[Len(s)] # "_"
    /\ \A k \in 1..(Len(s) - 1) : ~(s[k] = "_" /\ s[k + 1] = "_")

\* int(s, 16): "ok" when the literal parses, "ValueError" otherwise.  The
\* literal is an optional sign, an optional 0x / 0X prefix (which may be
\* followed by one underscore) and the digit part.
int16(s) ==
    LET unsigned == IF Len(s) > 0 /\ s[1] \in {"+", "-"} THEN Tail(s) ELSE s
        prefixed == Len(unsigned) >= 2 /\ unsigned[1] = "0" /\ unsigned[2] \in {"x", "X"}
        rest     == IF prefixed THEN Tail(Tail(unsigned)) ELSE unsigned
        digits   == IF prefixed /\ Len(rest) > 0 /\ rest[1] = "_" THEN Tail(rest) ELSE rest
    IN  IF DigitsOk(digits) THEN "ok" ELSE "ValueError"

(***************************************************************************)
(* DHCPConfig._is_valid_mac                                                *)
(***************************************************************************)
is_valid_mac(m) ==
    IF Len(Split(m)) # 6 THEN FALSE
    ELSE int16(Replace(m)) = "ok"

(***************************************************************************)
(* ipaddress.ip_address / ipaddress.ip_network (IPv4, strict).             *)
(***************************************************************************)
NoPrefix == -1

ip_address(s) ==
    IF Len(s) = 4 /\ \A k \in 1..4 : s[k] \in 0..255 THEN "ok" ELSE "ValueError"

\* number of host bits of octet k under prefix length p
HostBits(k, p) == Max(0, Min(8, 8 * k - p))

ip_network(n) ==
    IF ip_address(n.addr) # "ok" THEN "ValueError"
    ELSE IF n.prefix = NoPrefix THEN "ok"
    ELSE IF n.prefix \notin 0..32 THEN "ValueError"
    ELSE IF \E k \in 1..4 : n.addr[k] % (2 ^ HostBits(k, n.prefix)) # 0
         THEN "ValueError"      \* "has host bits set"
    ELSE "ok"

(***************************************************************************)
(* Outcome of a validate() call: the returned boolean, the exception that  *)
(* escaped (None: every ValueError is caught and turned into False) and    *)
(* the error records it logged.                                            *)
(***************************************************************************)
Returned(b, msgs) == [ret |-> b, raised |-> None, log |-> msgs]

(***************************************************************************)
(* DHCPConfig.validate                                                     *)
(***************************************************************************)
\* the reservation loop from entry k on: "ok", "bad_mac" or "ValueError"
RECURSIVE ReservationLoop(_, _)
ReservationLoop(res, k) ==
    IF k > Len(res) THEN [status |-> "ok", at |-> 0]
    ELSE IF ~is_valid_mac(res[k].mac) THEN [status |-> "bad_mac", at |-> k]
    ELSE IF ip_address(res[k].ip) # "ok" THEN [status |-> "ValueError", at |-> k]
    ELSE ReservationLoop(res, k + 1)

DHCPValidate(d) ==
    IF ip_network(d.subnet) # "ok"
        THEN Returned(FALSE, <<[msg |-> "DHCP validation error", value |-> d.subnet]>>)
    ELSE IF ip_address(d.gateway) # "ok"
        THEN Returned(FALSE, <<[msg |-> "DHCP validation error", value |-> d.gateway]>>)
    ELSE LET r == ReservationLoop(d.reservations, 1)
         IN  CASE r.status = "bad_mac" ->
                    Returned(FALSE, <<[msg |-> "Invalid MAC address format",
                                       value |-> d.reservations[r.at].mac]>>)
               [] r.status = "ValueError" ->
                    Returned(FALSE, <<[msg |-> "DHCP validation error",
                                       value |-> d.reservations[r.at].ip]>>)
               [] OTHER -> Returned(TRUE, <<>>)

(***************************************************************************)
(* VLANConfig.validate                                                     *)
(***************************************************************************)
MinVlanId == 1
MaxVlanId == 4094

\* an upper limit that lets 4095 through
VlanIdInRange_OffByOne(id) == MinVlanId <= id /\ id <= MaxVlanId + 1

\* 1 <= self.id <= 4094
VlanIdInRange(id) == MinVlanId <= id /\ id <= MaxVlanId

VLANValidate(v) ==
    IF ~VlanIdInRange(v.id)
        THEN Returned(FALSE, <<[msg |-> "Invalid VLAN ID", value |-> v.id]>>)
    ELSE IF ip_network(v.subnet) # "ok"
        THEN Returned(FALSE, <<[msg |-> "VLAN validation error", value |-> v.subnet]>>)
    ELSE Returned(TRUE, <<>>)

(***************************************************************************)
(* Inputs.                                                                 *)
(***************************************************************************)
GoodGroup == <<"a", "a">>
OddGroups ==
    { <<"0", "F">>,          \* two hex digits, upper case
      <<"a">>,               \* one digit
      <<"a", "a", "a">>,     \* three digits
      <<>>,                  \* empty group
      <<"g", "g">>,          \* not hexadecimal
      <<"0", "x">>,          \* two characters that form a literal prefix
      <<"a", "_">>,          \* digit and underscore
      <<"-", "a">> }         \* sign and digit

\* the group lists with up to maxGroups groups, of which those at the
\* positions D (at most maxOdd of them) are odd
MacGroupLists(maxGroups, maxOdd) ==
    UNION { UNION { { [k \in 1..n |-> IF k \in D THEN f[k] ELSE GoodGroup]
                      : f \in [D -> OddGroups] }
                    : D \in { X \in SUBSET (1..n) : Cardinality(X) <= maxOdd } }
            : n \in 1..maxGroups }

MacInputs(maxGroups, maxOdd) == { Join(gs) : gs \in MacGroupLists(maxGroups, maxOdd) }

IpGood == <<192, 168, 1, 1>>

NetGood == [addr |-> <<192, 168, 1, 0>>, prefix |-> 24]
NetInputs ==
    { NetGood,
      [addr |-> <<10, 0, 0, 0>>, prefix |-> 8],
      [addr |-> <<192, 168, 1, 0>>, prefix |-> NoPrefix],   \* "192.168.1.0"
      [addr |-> <<192, 168, 1, 1>>, prefix |-> 24],         \* host bits set
      [addr |-> <<192, 168, 1, 0>>, prefix |-> 33],
      [addr |-> <<999, 0, 0, 0>>, prefix |-> 8] }

Mac(gs) == Join(gs)
MacGood == Mac(<<GoodGroup, GoodGroup, GoodGroup, GoodGroup, GoodGroup, GoodGroup>>)
MacShort == Mac(<<GoodGroup, GoodGroup, GoodGroup>>)
MacNotHex == Mac(<<<<"g", "g">>, GoodGroup, GoodGroup, GoodGroup, GoodGroup, GoodGroup>>)
MacOneDigit == Mac(<<<<"a">>, <<"b">>, <<"a">>, <<"b">>, <<"a">>, <<"f">>>>)
MacAlt == Mac(<<<<"0", "F">>, GoodGroup, GoodGroup, GoodGroup, GoodGroup, GoodGroup>>)
ReservationMacs == { MacGood, MacAlt, MacShort, MacNotHex, MacOneDigit }

ReservationEntries == [mac : ReservationMacs, ip : {IpGood, <<999, 999, 999, 999>>}]

\* a dict in insertion order: a sequence of entries with pairwise distinct keys
ReservationTables(maxLen) ==
    UNION { { r \in [1..n -> ReservationEntries] :
                \A a, b \in 1..n : a # b => r[a].mac # r[b].mac }
            : n \in 0..maxLen }

DhcpInputs(maxLen) ==
    [reservations : ReservationTables(maxLen),
     subnet : { NetGood, [addr |-> <<192, 168, 1, 1>>, prefix |-> 24] },
     gateway : { IpGood, <<1, 2, 3>> }]

VlanInputs(margin) ==
    [id : (MinVlanId - margin)..(MaxVlanId + margin),
     name : {"mgmt"},
     subnet : NetInputs]

(***************************************************************************)
(* NetworkConfig.validate.  The method is four blocks in a row, each with  *)
(* an early "return False"; a block is modelled by its outcome             *)
(*   [ok, checks, log]                                                     *)
(* where checks lists, in execution order, the checks the block ran        *)
(* (a check is [check, at, ok]) and log the error records it emitted.      *)
(***************************************************************************)
Range(f) == { f[x] : x \in DOMAIN f }

Check(name, k, ok) == [check |-> name, at |-> k, ok |-> ok]
Block(ok, checks, msgs) == [ok |-> ok, checks |-> checks, log |-> msgs]

\* if self.dhcp and not self.dhcp.validate(): return False
DhcpBlock(c) ==
    IF c.dhcp = <<>> THEN Block(TRUE, <<>>, <<>>)
    ELSE LET r == DHCPValidate(c.dhcp[1])
         IN  Block(r.ret, <<Check("dhcp", 1, r.ret)>>, r.log)

\* for vlan in self.vlans: if not vlan.validate(): return False
RECURSIVE VlanLoop(_, _)
VlanLoop(vlans, k) ==
    IF k > Len(vlans) THEN Block(TRUE, <<>>, <<>>)
    ELSE LET r == VLANValidate(vlans[k])
         IN  IF ~r.ret THEN Block(FALSE, <<Check("vlan", k, FALSE)>>, r.log)
             ELSE LET rest == VlanLoop(vlans, k + 1)
                  IN  Block(rest.ok, <<Check("vlan", k, TRUE)>> \o rest.checks, rest.log)

VlanBlock(c) == VlanLoop(c.vlans, 1)

\* vlan_ids = [v.id for v in self.vlans]; len(vlan_ids) != len(set(vlan_ids))
HasDuplicateVlanIds_SelfCompare(vlans) ==
    LET vlan_ids == [k \in 1..Len(vlans) |-> vlans[k].id]
    IN  Len(vlan_ids) # Len(vlan_ids)

HasDuplicateVlanIds(vlans) ==
    LET vlan_ids == [k \in 1..Len(vlans) |-> vlans[k].id]
    IN  Len(vlan_ids) # Cardinality(Range(vlan_ids))

DuplicateBlock(c) ==
    IF HasDuplicateVlanIds(c.vlans)
        THEN Block(FALSE, <<Check("duplicate", 1, FALSE)>>,
                   <<[msg |-> "Duplicate VLAN IDs detected", value |-> <<>>]>>)
    ELSE Block(TRUE, <<Check("duplicate", 1, TRUE)>>, <<>>)

\* for dns in self.dns_servers: ipaddress.ip_address(dns)   (ValueError is caught)
RECURSIVE DnsLoop(_, _)
DnsLoop(dns, k) ==
    IF k > Len(dns) THEN Block(TRUE, <<>>, <<>>)
    ELSE IF ip_address(dns[k]) # "ok"
        THEN Block(FALSE, <<Check("dns", k, FALSE)>>,
                   <<[msg |-> "Network configuration validation error", value |-> dns[k]]>>)
    ELSE LET rest == DnsLoop(dns, k + 1)
         IN  Block(rest.ok, <<Check("dns", k, TRUE)>> \o rest.checks, rest.log)

DnsBlock(c) == DnsLoop(c.dns_servers, 1)

\* a run that goes on after a failing block
RECURSIVE RunBlocks_NoEarlyReturn(_)
RunBlocks_NoEarlyReturn(blocks) ==
    IF blocks = <<>> THEN Block(TRUE, <<>>, <<>>)
    ELSE LET rest == RunBlocks_NoEarlyReturn(Tail(blocks))
         IN  Block(Head(blocks).ok /\ rest.ok, Head(blocks).checks \o rest.checks,
                   Head(blocks).log \o rest.log)

\* the blocks in a row: the first block that fails returns False and the later
\* blocks do not run
RECURSIVE RunBlocks(_)
RunBlocks(blocks) ==
    IF blocks = <<>> THEN Block(TRUE, <<>>, <<>>)
    ELSE IF ~Head(blocks).ok THEN Head(blocks)
    ELSE LET rest == RunBlocks(Tail(blocks))
         IN  Block(rest.ok, Head(blocks).checks \o rest.checks,
                   Head(blocks).log \o rest.log)

\* The outcome of validate(): what it returned, what it logged, the checks it
\* ran, and the object as the call left it (validate assigns no attribute).
ValidateOutcome(c, b) ==
    [ret |-> b.ok, raised |-> None, log |-> b.log, checks |-> b.checks, self |-> c]

\* a validate() that consumes the DNS list while checking it
NetworkValidate_Consuming(c) ==
    LET b == RunBlocks(<<DhcpBlock(c), VlanBlock(c), DuplicateBlock(c), DnsBlock(c)>>)
    IN  [ret |-> b.ok, raised |-> None, log |-> b.log, checks |-> b.checks,
         self |-> [c EXCEPT !.dns_servers = <<>>]]

NetworkValidate(c) ==
    ValidateOutcome(c, RunBlocks(<<DhcpBlock(c), VlanBlock(c), DuplicateBlock(c), DnsBlock(c)>>))

(***************************************************************************)
(* NetworkConfig.from_json.  A dict is a function on its keys.             *)
(***************************************************************************)
DhcpFields == {"reservations", "subnet", "gateway"}
VlanFields == {"id", "name", "subnet"}

Has(d, key) == key \in DOMAIN d
Get(d, key, default) == IF key \in DOMAIN d THEN d[key] ELSE default

NewNetworkConfig == [dhcp |-> <<>>, vlans |-> <<>>, dns_servers |-> <<>>, firewall_rules |-> <<>>]

\* the object after the parsing part (lines 187-199), before validation
Parsed(data) ==
    [dhcp |-> IF Has(data, "dhcp") THEN <<data.dhcp>> ELSE <<>>,
     vlans |-> IF Has(data, "vlans") THEN data.vlans ELSE NewNetworkConfig.vlans,
     dns_servers |-> Get(data, "dns_servers", <<>>),
     firewall_rules |-> Get(data, "firewall_rules", <<>>)]

\* DHCPConfig(**d) / VLANConfig(**d) raise TypeError on a missing or unexpected key
SchemaError(data) ==
    \/ Has(data, "dhcp") /\ DOMAIN data.dhcp # DhcpFields
    \/ Has(data, "vlans") /\ \E k \in 1..Len(data.vlans) : DOMAIN data.vlans[k] # VlanFields

\* a from_json that returns the object without looking at validate()'s result
from_json_Unchecked(data) ==
    IF SchemaError(data) THEN [object |-> <<>>, raised |-> "TypeError"]
    ELSE [object |-> <<NetworkValidate(Parsed(data)).self>>, raised |-> None]

\* [object |-> <<>> or <<the NetworkConfig returned>>, raised |-> exception or None]
from_json(data) ==
    IF SchemaError(data) THEN [object |-> <<>>, raised |-> "TypeError"]
    ELSE LET v == NetworkValidate(Parsed(data))
         IN  IF ~v.ret THEN [object |-> <<>>, raised |-> "ValueError"]
             ELSE [object |-> <<v.self>>, raised |-> None]

(***************************************************************************)
(* NetworkDevice.deploy_config and deploy_configuration.                   *)
(* A device is [hostname, ip, kind, forced]: kind selects the class        *)
(* (Router, Switch); forced # "none" stands for a NetworkDevice whose      *)
(* deploy_config is overridden to return that falsy value ("False",        *)
(* "None") or to raise that exception (an Exception subclass).             *)
(***************************************************************************)
Exceptions == {"ValueError", "RuntimeError"}
Truthy(v) == v = "True"

Info(text, dev, arg) == [level |-> "INFO", msg |-> text, host |-> dev.hostname, arg |-> arg]
Err(text, dev, arg) == [level |-> "ERROR", msg |-> text, host |-> dev.hostname, arg |-> arg]

Result(v, e, msgs) == [ret |-> v, raised |-> e, log |-> msgs]

RouterDeploy(dev, c) ==
    Result("True", None,
           <<Info("Deploying configuration to router", dev, "")>>
           \o (IF c.dhcp # <<>> THEN <<Info("Configuring DHCP on", dev, "")>> ELSE <<>>)
           \o (IF c.firewall_rules # <<>>
                 THEN <<Info("Applying firewall rules on", dev, "")>> ELSE <<>>))

SwitchDeploy(dev, c) ==
    Result("True", None,
           <<Info("Deploying configuration to switch", dev, "")>>
           \o [k \in 1..Len(c.vlans) |-> Info("Configuring VLAN", dev, ToString(c.vlans[k].id))])

deploy_config(dev, c) ==
    IF dev.forced \in Exceptions THEN Result(None, dev.forced, <<>>)
    ELSE IF dev.forced # "none" THEN Result(dev.forced, None, <<>>)
    ELSE IF dev.kind = "Router" THEN RouterDeploy(dev, c)
    ELSE SwitchDeploy(dev, c)

\* except Exception as e
Caught(e) == e \in Exceptions

\* One pass of the try statement's handling of deploy_config's result r for
\* device dev, with success the local before it:
\* [success, log, escaped]: the local after it, the records logged by
\* deploy_configuration itself, and the exception that leaves the function.
HandleResult_ForgetsReturnedFalse(r, dev, succ) ==
    IF r.raised # None
        THEN [success |-> FALSE, escaped |-> None,
              log |-> <<Err("Error deploying config to", dev, r.raised)>>]
    ELSE [success |-> succ, escaped |-> None, log |-> <<>>]

HandleResult_LastWins(r, dev, succ) ==
    IF r.raised # None
        THEN [success |-> FALSE, escaped |-> None,
              log |-> <<Err("Error deploying config to", dev, r.raised)>>]
    ELSE IF ~Truthy(r.ret)
        THEN [success |-> FALSE, escaped |-> None,
              log |-> <<Err("Failed to deploy config to", dev, "")>>]
    ELSE [success |-> TRUE, escaped |-> None, log |-> <<>>]

HandleResult(r, dev, succ) ==
    IF r.raised # None
        THEN IF Caught(r.raised)
                THEN [success |-> FALSE, escaped |-> None,
                      log |-> <<Err("Error deploying config to", dev, r.raised)>>]
             ELSE [success |-> succ, escaped |-> r.raised, log |-> <<>>]
    ELSE IF ~Truthy(r.ret)
        THEN [success |-> FALSE, escaped |-> None,
              log |-> <<Err("Failed to deploy config to", dev, "")>>]
    ELSE [success |-> succ, escaped |-> None, log |-> <<>>]

\* a loop that stops at the first device that did not succeed
NextDevice_BreakOnFailure(k, h, n) == IF h.success THEN k + 1 ELSE n + 1

\* for device in devices: the index after device k, whatever its handling h
NextDevice(k, h, n) == k + 1

(***************************************************************************)
(* Inputs of NetworkConfig.validate, from_json and deploy_configuration.   *)
(***************************************************************************)
RECURSIVE SeqsUpTo(_, _)
SeqsUpTo(S, n) ==
    IF n = 0 THEN {<<>>}
    ELSE LET shorter == SeqsUpTo(S, n - 1)
         IN  shorter \cup {Append(q, x) : q \in {t \in shorter : Len(t) = n - 1}, x \in S}

Reservation(m) == <<[mac |-> m, ip |-> IpGood]>>
DhcpGood == [reservations |-> Reservation(MacGood), subnet |-> NetGood, gateway |-> IpGood]
DhcpBadGateway == [DhcpGood EXCEPT !.gateway = <<1, 2, 3>>]
DhcpOneDigitMac == [DhcpGood EXCEPT !.reservations = Reservation(MacOneDigit)]
NetHostBits == [addr |-> <<192, 168, 1, 1>>, prefix |-> 24]
BadDns == <<999, 999, 999, 999>>
Rule == [action |-> "allow", port |-> 22]

VlanObjects == [id : {10, 20, 4095}, name : {"v"}, subnet : {NetGood, NetHostBits}]

ConfigInputs(maxVlans, maxDns) ==
    [dhcp : {<<>>, <<DhcpGood>>, <<DhcpBadGateway>>},
     vlans : SeqsUpTo(VlanObjects, maxVlans),
     dns_servers : SeqsUpTo({IpGood, BadDns}, maxDns),
     firewall_rules : {<<>>, <<Rule>>}]

\* dicts as they come out of json.load
Dict0 == <<>>
RawDhcp ==
    { DhcpGood, DhcpBadGateway, DhcpOneDigitMac,
      [reservations |-> Reservation(MacGood), subnet |-> NetGood],       \* gateway missing
      ("lease" :> 60) @@ DhcpGood }                                       \* unexpected key
RawVlans ==
    { [id |-> 10, name |-> "v", subnet |-> NetGood],
      [id |-> 20, name |-> "v", subnet |-> NetGood],
      [id |-> 0, name |-> "v", subnet |-> NetGood],
      [id |-> 10, name |-> "v", subnet |-> NetHostBits],
      [id |-> 10, name |-> "v"] }                                         \* subnet missing

Optional(key, values) == {Dict0} \cup {key :> v : v \in values}

RawInputs(maxVlans, maxDns) ==
    { a @@ b @@ c @@ d :
        a \in Optional("dhcp", RawDhcp),
        b \in Optional("vlans", SeqsUpTo(RawVlans, maxVlans)),
        c \in Optional("dns_servers", SeqsUpTo({IpGood, BadDns}, maxDns)),
        d \in Optional("firewall_rules", {<<Rule>>}) }

DeviceInputs ==
    { [hostname |-> "router1", ip |-> IpGood, kind |-> "Router", forced |-> f]
        : f \in {"none", "False", "None"} \cup Exceptions }
    \cup
    { [hostname |-> "switch1", ip |-> <<192, 168, 1, 2>>, kind |-> "Switch", forced |-> f]
        : f \in {"none", "False", "None"} \cup Exceptions }

DeployRawInputs ==
    { Dict0,
      [dhcp |-> DhcpGood,
       vlans |-> <<[id |-> 10, name |-> "v", subnet |-> NetGood]>>,
       dns_servers |-> <<IpGood>>,
       firewall_rules |-> <<Rule>>],
      [dns_servers |-> <<BadDns>>] }

(***************************************************************************)
(* Actions.                                                                *)
(***************************************************************************)
PureIdle ==
    /\ mac = <<>> /\ macResult = <<>>
    /\ dhcp = <<>> /\ dhcpResult = <<>>
    /\ vlan = <<>> /\ vlanResult = <<>>

NetIdle ==
    /\ config_data = <<>> /\ config = <<>> /\ error = None
    /\ valid = <<>> /\ calls = 0

DeployIdle ==
    /\ devices = <<>> /\ i = 0 /\ success = TRUE
    /\ applied = <<>> /\ log = <<>> /\ returned = <<>>

\* DHCPConfig._is_valid_mac(mac)
CheckMac ==
    /\ pc = "mac" /\ macResult = <<>>
    /\ macResult' = <<is_valid_mac(mac)>>
    /\ UNCHANGED <<mac, dhcp, dhcpResult, vlan, vlanResult, netVars, deployVars, pc>>

\* dhcp.validate()
CheckDhcp ==
    /\ pc = "dhcp" /\ dhcpResult = <<>>
    /\ dhcpResult' = <<DHCPValidate(dhcp)>>
    /\ UNCHANGED <<mac, macResult, dhcp, vlan, vlanResult, netVars, deployVars, pc>>

\* vlan.validate()
CheckVlan ==
    /\ pc = "vlan" /\ vlanResult = <<>>
    /\ vlanResult' = <<VLANValidate(vlan)>>
    /\ UNCHANGED <<mac, macResult, dhcp, dhcpResult, vlan, netVars, deployVars, pc>>

\* config = NetworkConfig.from_json(config_data)
FromJson ==
    /\ pc = "start"
    /\ LET r == from_json(config_data)
       IN  /\ config' = r.object
           /\ error' = r.raised
           /\ pc' = IF r.raised = None THEN "built" ELSE "failed"
    /\ UNCHANGED <<config_data, valid, calls, pureVars, deployVars>>

\* config.validate() on the object the caller holds
Validate ==
    /\ pc = "built" /\ calls < MaxValidateCalls
    /\ LET out == NetworkValidate(config[1])
       IN  /\ valid' = <<[ret |-> out.ret, raised |-> out.raised,
                          log |-> out.log, checks |-> out.checks]>>
           /\ config' = <<out.self>>
    /\ calls' = calls + 1
    /\ UNCHANGED <<config_data, error, pc, pureVars, deployVars>>

\* deploy_configuration(config, devices): success = True, the loop is entered
DeployEnter ==
    /\ pc = "built"
    /\ success' = TRUE
    /\ i' = 1
    /\ pc' = "loop"
    /\ UNCHANGED <<devices, applied, log, returned, pureVars, netVars>>

\* one iteration of "for device in devices"
DeployIterate ==
    /\ pc = "loop" /\ i <= Len(devices)
    /\ LET device == devices[i]
           r == deploy_config(device, config[1])
           h == HandleResult(r, device, success)
       IN  /\ applied' = Append(applied, i)
           /\ log' = log \o r.log \o h.log
           /\ success' = h.success
           /\ IF h.escaped # None
                THEN /\ error' = h.escaped
                     /\ pc' = "raised"
                     /\ i' = i
                ELSE /\ error' = error
                     /\ pc' = pc
                     /\ i' = NextDevice(i, h, Len(devices))
    /\ UNCHANGED <<devices, returned, config_data, config, valid, calls, pureVars>>

\* return success
DeployReturn ==
    /\ pc = "loop" /\ i > Len(devices)
    /\ returned' = <<success>>
    /\ pc' = "done"
    /\ UNCHANGED <<devices, i, success, applied, log, pureVars, netVars>>

(***************************************************************************)
(* Specifications.                                                         *)
(***************************************************************************)
InitMac ==
    /\ mac \in MacInputs(MaxMacGroups, MaxMacOdd) /\ macResult = <<>>
    /\ dhcp = <<>> /\ dhcpResult = <<>> /\ vlan = <<>> /\ vlanResult = <<>>
    /\ NetIdle /\ DeployIdle /\ pc = "mac"

SpecMac == InitMac /\ [][CheckMac]_vars

InitDhcp ==
    /\ dhcp \in DhcpInputs(MaxReservations) /\ dhcpResult = <<>>
    /\ mac = <<>> /\ macResult = <<>> /\ vlan = <<>> /\ vlanResult = <<>>
    /\ NetIdle /\ DeployIdle /\ pc = "dhcp"

SpecDhcp == InitDhcp /\ [][CheckDhcp]_vars

InitVlan ==
    /\ vlan \in VlanInputs(VlanIdMargin) /\ vlanResult = <<>>
    /\ mac = <<>> /\ macResult = <<>> /\ dhcp = <<>> /\ dhcpResult = <<>>
    /\ NetIdle /\ DeployIdle /\ pc = "vlan"

SpecVlan == InitVlan /\ [][CheckVlan]_vars

\* a NetworkConfig assembled attribute by attribute, then validated
InitValidate ==
    /\ config \in {<<c>> : c \in ConfigInputs(MaxVlans, MaxDns)}
    /\ config_data = <<>> /\ error = None /\ valid = <<>> /\ calls = 0
    /\ PureIdle /\ DeployIdle /\ pc = "built"

SpecValidate == InitValidate /\ [][Validate]_vars

\* a NetworkConfig built by from_json, then validated again by the caller
InitFromJson ==
    /\ config_data \in RawInputs(MaxVlans, MaxDns)
    /\ config = <<>> /\ error = None /\ valid = <<>> /\ calls = 0
    /\ PureIdle /\ DeployIdle /\ pc = "start"

NextFromJson == FromJson \/ Validate

SpecFromJson == InitFromJson /\ [][NextFromJson]_vars

\* The program (lines 306-320): the configuration is built by from_json and,
\* when that returned an object, deployed to the devices.
Init ==
    /\ config_data \in DeployRawInputs
    /\ devices \in SeqsUpTo(DeviceInputs, MaxDevices)
    /\ config = <<>> /\ error = None /\ valid = <<>> /\ calls = 0
    /\ i = 0 /\ success = TRUE /\ applied = <<>> /\ log = <<>> /\ returned = <<>>
    /\ PureIdle /\ pc = "start"

Next == FromJson \/ DeployEnter \/ DeployIterate \/ DeployReturn

Spec == Init /\ [][Next]_vars

(***************************************************************************)
(* Properties.                                                             *)
(***************************************************************************)
\* what the specification calls a well-formed MAC: exactly six groups, each
\* exactly two hexadecimal digits
SixHexPairs(m) ==
    LET gs == Split(m)
    IN  /\ Len(gs) = 6
        /\ \A k \in 1..Len(gs) :
              Len(gs[k]) = 2 /\ \A j \in 1..Len(gs[k]) : gs[k][j] \in HexDigits

\* a CIDR block: four octets, "/" and a prefix length in 0..32, no host bits set
ValidCidrSubnet(n) ==
    /\ Len(n.addr) = 4
    /\ \A k \in 1..Len(n.addr) : n.addr[k] >= 0 /\ n.addr[k] <= 255
    /\ n.prefix >= 0 /\ n.prefix <= 32
    /\ \A k \in 1..Len(n.addr) : n.addr[k] % (2 ^ Max(0, Min(8, 8 * k - n.prefix))) = 0

\* the outcome of deploy_config on device k is Success: a truthy value, no fault
Succeeded(k) ==
    LET r == deploy_config(devices[k], config[1])
    IN  r.raised = None /\ r.ret = "True"

ErrorRecords == SelectSeq(log, LAMBDA rec : rec.level = "ERROR")
FailedAmong(ks) == SelectSeq(ks, LAMBDA k : ~Succeeded(k))

\* C1: deploy_configuration returns true exactly when every device's
\* deploy_config returned a truthy value without raising (true for no device
\* at all; false when any device, at any position, failed or raised).
C1_DeployTrueIffAllSucceed ==
    pc = "done" =>
        (returned[1] <=> \A k \in 1..Len(devices) : Succeeded(k))

\* C1 witness: a deployment that ended false because of its first device only
C1_Witness ==
    /\ pc = "done" /\ Len(devices) = 3
    /\ ~Succeeded(1) /\ Succeeded(2) /\ Succeeded(3)
    /\ returned = <<FALSE>>

\* C2: deploy_config is invoked on every device exactly once and in input
\* order whatever the earlier outcomes were, no fault leaves
\* deploy_configuration, and it returns a boolean.
C2_EveryDeviceAppliedInOrder ==
    /\ applied = [k \in 1..Len(applied) |-> k]
    /\ pc # "raised"
    /\ (pc = "loop" => Len(applied) = i - 1 /\ i <= Len(devices) + 1)
    /\ (pc = "done" => /\ Len(applied) = Len(devices)
                       /\ returned # <<>> /\ returned[1] \in BOOLEAN)

\* C2 witness: the first device raised, the second returned False, and the
\* third was still applied
C2_Witness ==
    /\ pc = "done" /\ Len(devices) = 3
    /\ devices[1].forced \in Exceptions /\ devices[2].forced = "False"
    /\ applied = <<1, 2, 3>>
    /\ returned = <<FALSE>>

\* C8: the failure records are exactly the failed devices: one ERROR record
\* with the device's hostname per device that returned failure or raised, in
\* order, none for a device that succeeded; with [Router, Switch] and the
\* Router forced to fail the result is false, the Switch is still applied and
\* exactly one failure is recorded.
C8_FailureRecordsAreFailedDevices ==
    /\ Len(ErrorRecords) = Len(FailedAmong(applied))
    /\ \A k \in 1..Len(ErrorRecords) :
          ErrorRecords[k].host = devices[FailedAmong(applied)[k]].hostname
    /\ (/\ pc = "done" /\ Len(devices) = 2
        /\ devices[1].kind = "Router" /\ devices[1].forced # "none"
        /\ devices[2].kind = "Switch" /\ devices[2].forced = "none")
       => /\ returned = <<FALSE>>
          /\ Len(ErrorRecords) = 1
          /\ \E k \in 1..Len(log) :
                log[k].msg = "Deploying configuration to switch"

\* C8 witness: the Router / Switch scenario, the Router's fault recorded
C8_Witness ==
    /\ pc = "done" /\ Len(devices) = 2
    /\ devices[1].kind = "Router" /\ devices[1].forced = "RuntimeError"
    /\ devices[2].kind = "Switch" /\ devices[2].forced = "none"
    /\ Len(ErrorRecords) = 1 /\ ErrorRecords[1].host = "router1"
    /\ config[1].vlans # <<>>

\* C3: from_json either returns an object on which validate() is true, also
\* when called again, or raises and the caller holds no object; an input with
\* a DNS entry "999.999.999.999" raises.
C3_FromJsonNeverReturnsInvalid ==
    /\ (pc = "start" => config = <<>>)
    /\ (pc = "failed" => config = <<>> /\ error \in {"TypeError", "ValueError"})
    /\ (pc = "built" => config # <<>> /\ error = None)
    /\ (valid # <<>> => valid[1].ret /\ valid[1].raised = None)
    /\ (/\ pc # "start" /\ Has(config_data, "dns_servers")
        /\ \E k \in 1..Len(config_data.dns_servers) : config_data.dns_servers[k] = BadDns)
       => pc = "failed"

\* C3 witness: an object with DHCP, VLANs and DNS servers was returned and
\* validated twice by the caller
C3_Witness ==
    /\ pc = "built" /\ calls = 2 /\ valid # <<>> /\ valid[1].ret
    /\ config[1].dhcp # <<>> /\ Len(config[1].vlans) = 2
    /\ config[1].dns_servers # <<>>

\* C4: a NetworkConfig in which two VLANs have the same id does not validate.
C4_DuplicateVlanIdsRejected ==
    (/\ valid # <<>>
     /\ \E a, b \in 1..Len(config[1].vlans) :
           a # b /\ config[1].vlans[a].id = config[1].vlans[b].id)
    => ~valid[1].ret

\* C4 witness: both VLANs have id 10 and validate individually, DHCP and DNS
\* are valid, and validate() returned false
C4_Witness ==
    /\ valid # <<>> /\ ~valid[1].ret
    /\ config[1].dhcp = <<DhcpGood>> /\ config[1].dns_servers = <<IpGood>>
    /\ Len(config[1].vlans) = 2
    /\ \A k \in 1..2 : config[1].vlans[k].id = 10 /\ config[1].vlans[k].subnet = NetGood

\* C5: _is_valid_mac(s) is true exactly when s is six colon-separated groups
\* of exactly two hexadecimal digits each.
C5_MacIffSixHexPairs ==
    macResult # <<>> => (macResult[1] <=> SixHexPairs(mac))

\* C6: a DHCPConfig with a reservation whose MAC is not six two-hex-digit
\* groups does not validate, and validate() raises nothing.
C6_InvalidMacRejected ==
    (/\ dhcpResult # <<>>
     /\ \E k \in 1..Len(dhcp.reservations) : ~SixHexPairs(dhcp.reservations[k].mac))
    => /\ dhcpResult[1].raised = None
       /\ ~dhcpResult[1].ret

Plan(c) ==
    (IF c.dhcp # <<>> THEN <<[check |-> "dhcp", at |-> 1]>> ELSE <<>>)
    \o [k \in 1..Len(c.vlans) |-> [check |-> "vlan", at |-> k]]
    \o <<[check |-> "duplicate", at |-> 1]>>
    \o [k \in 1..Len(c.dns_servers) |-> [check |-> "dns", at |-> k]]

Ran(name) == \E k \in 1..Len(valid[1].checks) : valid[1].checks[k].check = name
SomeVlanInvalid(c) == \E k \in 1..Len(c.vlans) : ~VLANValidate(c.vlans[k]).ret
SomeVlanIdTwice(c) ==
    \E a, b \in 1..Len(c.vlans) : a # b /\ c.vlans[a].id = c.vlans[b].id

\* C10: validate() runs DHCP, then each VLAN in order, then the duplicate-id
\* check, then each DNS server, and stops at the first failing check with
\* result false; the duplicate check is reached only when every VLAN
\* validated, DNS only when DHCP, VLANs and uniqueness passed.
C10_FixedOrderFailFast ==
    valid # <<>> =>
        LET cs == valid[1].checks
            c == config[1]
        IN  /\ Len(cs) <= Len(Plan(c))
            /\ \A k \in 1..Len(cs) :
                  cs[k].check = Plan(c)[k].check /\ cs[k].at = Plan(c)[k].at
            /\ \A k \in 1..(Len(cs) - 1) : cs[k].ok
            /\ (valid[1].ret <=> \A k \in 1..Len(cs) : cs[k].ok)
            /\ (valid[1].ret => Len(cs) = Len(Plan(c)))
            /\ (Ran("duplicate") => ~SomeVlanInvalid(c))
            /\ (Ran("dns") =>
                  /\ ~SomeVlanInvalid(c) /\ ~SomeVlanIdTwice(c)
                  /\ (c.dhcp # <<>> => DHCPValidate(c.dhcp[1]).ret))
            /\ (SomeVlanInvalid(c) /\ SomeVlanIdTwice(c) =>
                  ~valid[1].ret /\ ~Ran("duplicate") /\ ~Ran("dns"))

\* C10 witness: a duplicate id together with an invalid VLAN: validate()
\* stopped at that VLAN's own check
C10_Witness ==
    /\ valid # <<>> /\ ~valid[1].ret
    /\ config[1].dhcp = <<DhcpGood>> /\ config[1].dns_servers # <<>>
    /\ SomeVlanIdTwice(config[1]) /\ ~VLANValidate(config[1].vlans[2]).ret
    /\ Len(valid[1].checks) = 3
    /\ valid[1].checks[3] = [check |-> "vlan", at |-> 2, ok |-> FALSE]

====
